---- MODULE Spec2Model ----
(***************************************************************************)
(* State-machine model of SymEigsSolver / SymEigsShiftSolver               *)
(* (implicitly restarted Arnoldi eigen solver).                            *)
(*                                                                         *)
(* Representation of the numerical objects:                                *)
(*  - indices are 0-based, as in the source: vectors and matrices are      *)
(*    functions over 0..len-1;                                             *)
(*  - a real number is an exact rational <<p, q>> in lowest terms, q >= 0  *)
(*    (<<1, 0>> and <<-1, 0>> are +inf and -inf of IEEE arithmetic);       *)
(*  - n-dimensional vectors and the entries of V and H are symbolic terms  *)
(*    ("zero", <<"normalize", x>>, <<"prod", x>>, ...): the operator A is  *)
(*    opaque, so only which expression a field holds is tracked;           *)
(*  - what the solver reads numerically from those objects (||f||, the     *)
(*    eigenvalues of H) is kept next to the symbolic part and is drawn     *)
(*    from small sets whenever the Arnoldi factorization refreshes it; the *)
(*    last-row entries of the eigenvectors of H are drawn when the         *)
(*    eigen-decomposition computes them.                                   *)
(***************************************************************************)
EXTENDS Integers, Sequences, FiniteSets, TLC

\* ---------------------------------------------------------------- bounds
MaxNcv == 3
MaxIt == 2
MaxNcvR == 7
MaxNcvS == 3

PrecInv == 1000

Kinds == {"base", "shift"}
Rules == {"LARGEST_MAGN", "BOTH_ENDS"}
NcvSet == 2..MaxNcv
NevSet == {1, 2}
Sigmas == {1}
EigVals == {0 - 1, 0, 1}
EigValsS == {0 - 2, 0 - 1, 0, 1, 2}
LastRows == {0, 1}
FNorms == {1}
Tols == {2}
H00s == {1}
MaxIts == 0..MaxIt

\* ------------------------------------------------------------- rationals
Abs(x) == IF x < 0 THEN 0 - x ELSE x

Rat(k) == <<k, 1>>

RAbsGT(a, b) == Abs(a[1]) * b[2] > Abs(b[1]) * a[2]

RGT(a, b) == a[1] * b[2] > b[1] * a[2]

\* Scalar(1.0) / x
RRecip(a) == IF a[1] = 0 THEN <<1, 0>>
             ELSE IF a[1] > 0 THEN <<a[2], a[1]>>
             ELSE <<0 - a[2], 0 - a[1]>>

\* x + sigma, sigma an integer
RAdd(a, s) == IF a[2] = 0 THEN a ELSE <<a[1] + s * a[2], a[2]>>

\* prec = epsilon^(2/3), a positive number below every nonzero magnitude used
Prec == <<1, PrecInv>>

\* max(prec, abs(theta))
RMaxPrecAbs(a) == IF Abs(a[1]) * Prec[2] >= Prec[1] * a[2]
                  THEN <<Abs(a[1]), a[2]>> ELSE Prec

Idx(n) == 0..(n - 1)

\* ------------------------------------------------------------- the state
VARIABLES
    pc,         \* position of the caller / of compute()
    kind,       \* "base": SymEigsSolver, "shift": SymEigsShiftSolver
    rule,       \* template parameter SelectionRule
    dim_n, nev, ncv, sigma,
    op,         \* the operator object: shift_set (set_shift done) and the
                \* calls made on it since the current public call began
    fac_V, fac_H, fac_f,
    ritz_val, ritz_vec, ritz_conv,
    maxit, tol, iter_i, ret,   \* compute(): arguments, loop counter, result
    calls,      \* the calls compute() has made so far, in order
    res         \* what the caller's last accessor call returned

vars == <<pc, kind, rule, dim_n, nev, ncv, sigma, op, fac_V, fac_H, fac_f,
          ritz_val, ritz_vec, ritz_conv, maxit, tol, iter_i, ret, calls, res>>

solver == <<kind, rule, dim_n, nev, ncv, sigma>>
args == <<maxit, tol, iter_i, ret, calls>>

NoOpCalls == [prod |-> 0, shift_solve |-> 0]

Uninit == <<>>
ZeroVec == <<"zero">>
ZeroCol == [idx |-> 0 - 1, val |-> Rat(0), last |-> 0]

\* ------------------------------------------------- the operator callbacks
\* SymEigsSolver::matrix_operation: op->prod(x_in, y_out)
BaseMatrixOperation(o, x) ==
    [out |-> <<"prod">> \o x, op |-> [o EXCEPT !.calls.prod = @ + 1]]

\* SymEigsShiftSolver::matrix_operation: op_shift->shift_solve(x_in, y_out)
ShiftMatrixOperation(o, x) ==
    [out |-> <<"shift_solve">> \o x,
     op  |-> [o EXCEPT !.calls.shift_solve = @ + 1]]

\* mutant: the override is missing and the base version runs
matrix_operation_not_overridden(k, o, x) == BaseMatrixOperation(o, x)

\* the virtual call matrix_operation(x_in, y_out)
matrix_operation(k, o, x) ==
    IF k = "shift" THEN ShiftMatrixOperation(o, x) ELSE BaseMatrixOperation(o, x)

\* ------------------------------------------------- Arnoldi factorization
\* One pass of the for loop of factorize_from, from step i to to_m - 1.
\* s = [V, H, f, op]: V and H hold symbolic entries, f the residual term.
RECURSIVE factorize_loop(_, _, _, _)
factorize_loop(s, i, to_m, k) ==
    IF i > to_m - 1 THEN s
    ELSE LET v  == <<"normalize">> \o s.f
             H1 == [rc \in DOMAIN s.H |->
                       IF rc[1] = i /\ rc[2] < i THEN
                           (IF rc[2] = i - 1 THEN "beta" ELSE "zero")
                       ELSE s.H[rc]]
             m  == matrix_operation(k, s.op, v)
             H2 == [rc \in DOMAIN H1 |->
                       IF rc[2] = i /\ rc[1] <= i THEN "h" ELSE H1[rc]]
         IN  factorize_loop([V  |-> [s.V EXCEPT ![i] = v],
                             H  |-> H2,
                             f  |-> <<"w-Vh">>,
                             op |-> m.op], i + 1, to_m, k)

\* factorize_from(from_k, to_m, fk).  num = [norm, evals] is what the
\* finished factorization evaluates to numerically: ||fac_f|| and the
\* eigenvalues of fac_H in increasing order.
\* st = [V, H, f, op] with H = [ent, evals] and f = [vec, norm].
factorize_from(st, from_k, to_m, fk, num, k) ==
    IF to_m <= from_k THEN st
    ELSE LET r == factorize_loop([V |-> st.V, H |-> st.H.ent, f |-> fk.vec,
                                  op |-> st.op], from_k, to_m, k)
         IN  [V  |-> r.V,
              H  |-> [ent |-> r.H, evals |-> num.evals],
              f  |-> [vec |-> r.f, norm |-> num.norm],
              op |-> r.op]

\* The numerical outcomes a factorization of size m can have.
Ascending(m, D) ==
    {e \in [Idx(m) -> D] : \A a, b \in Idx(m) : a < b => e[a] <= e[b]}

NumOutcomes(m) ==
    {[norm |-> fn, evals |-> e] : fn \in FNorms, e \in Ascending(m, EigVals)}

\* ------------------------------------------------- sorting
\* EigenvalueComparator<Scalar, rule>::operator()(v1, v2): v1 goes first
EigenvalueComparator(r, v1, v2) ==
    IF r = "LARGEST_MAGN" THEN RAbsGT(v1.first, v2.first)
    ELSE RGT(v1.first, v2.first)

\* std::sort(pairs.begin(), pairs.end(), comp): every arrangement that is
\* in order for comp (the order of equivalent elements is unspecified).
\* The result is a set of 1-based sequences.
RECURSIVE SortOutcomes(_, _, _)
SortOutcomes(r, pairs, left) ==
    IF left = {} THEN {<<>>}
    ELSE UNION {{<<pairs[a]>> \o rest : rest \in SortOutcomes(r, pairs, left \ {a})} :
                  a \in {b \in left : \A c \in left :
                            ~EigenvalueComparator(r, pairs[c], pairs[b])}}

StdSort(r, pairs) ==
    {[j \in DOMAIN pairs |-> sq[j + 1]] : sq \in SortOutcomes(r, pairs, DOMAIN pairs)}

\* ------------------------------------------------- retrieve_ritzpair
\* the BOTH_ENDS loop: std::swap(pairs[offset + i], pairs[ncv - 1 - i])
RECURSIVE swap_loop(_, _, _, _, _)
swap_loop(pairs, i, offset, nv, nc) ==
    IF i >= nv - offset THEN pairs
    ELSE LET a == offset + i
             b == nc - 1 - i
         IN  swap_loop([pairs EXCEPT ![a] = pairs[b], ![b] = pairs[a]],
                       i + 1, offset, nv, nc)

\* column j of eig.eigenvectors(): the eigenvector of eigenvalue evals[j],
\* with a last-row entry of magnitude l
EvecCol(H, j, l) == [idx |-> j, val |-> Rat(H.evals[j]), last |-> l]

\* mutant: the offset rounded down
both_ends_offset_floor(nv) == nv \div 2

\* int offset = (nev + 1) / 2
both_ends_offset(nv) == (nv + 1) \div 2

\* retrieve_ritzpair(): the set of [val, vec] it can leave in ritz_val and
\* ritz_vec (one per outcome of std::sort and of the eigenvectors' last row)
retrieve_ritzpair(H, r, nv, nc) ==
    LET pairs0 == [j \in Idx(nc) |-> [first |-> Rat(H.evals[j]), second |-> j]]
    IN  {LET pairs == IF r = "BOTH_ENDS"
                      THEN swap_loop(sorted, 0, both_ends_offset(nv), nv, nc)
                      ELSE sorted
         IN  [val |-> [j \in Idx(nc) |-> pairs[j].first],
              vec |-> [j \in Idx(nv) |-> EvecCol(H, pairs[j].second, l[j])]] :
            sorted \in StdSort(r, pairs0), l \in [Idx(nv) -> LastRows]}

\* ------------------------------------------------- sort_ritzpair
\* mutant: the convergence flags are not reordered
base_sort_flags_in_place(val, vec, conv, nv) ==
    LET pairs0 == [j \in Idx(nv) |-> [first |-> val[j], second |-> j]]
    IN  {[val  |-> [j \in DOMAIN val |-> IF j < nv THEN pairs[j].first ELSE val[j]],
          vec  |-> [j \in Idx(nv) |-> vec[pairs[j].second]],
          conv |-> [j \in Idx(nv) |-> conv[j]]] :
            pairs \in StdSort("LARGEST_MAGN", pairs0)}

\* SymEigsSolver::sort_ritzpair(): the set of [val, vec, conv] it can leave
base_sort_ritzpair(val, vec, conv, nv) ==
    LET pairs0 == [j \in Idx(nv) |-> [first |-> val[j], second |-> j]]
    IN  {[val  |-> [j \in DOMAIN val |-> IF j < nv THEN pairs[j].first ELSE val[j]],
          vec  |-> [j \in Idx(nv) |-> vec[pairs[j].second]],
          conv |-> [j \in Idx(nv) |-> conv[pairs[j].second]]] :
            pairs \in StdSort("LARGEST_MAGN", pairs0)}

\* SymEigsShiftSolver::sort_ritzpair(): 1 / ritz_val.head(nev) + sigma, then
\* the base sort
shift_sort_ritzpair(val, vec, conv, nv, sg) ==
    LET ritz_val_org == [j \in DOMAIN val |->
                            IF j < nv THEN RAdd(RRecip(val[j]), sg) ELSE val[j]]
    IN  base_sort_ritzpair(ritz_val_org, vec, conv, nv)

\* mutant: the base class maps the values back as well
sort_ritzpair_always_maps(k, val, vec, conv, nv, sg) ==
    shift_sort_ritzpair(val, vec, conv, nv, sg)

\* the virtual call sort_ritzpair()
sort_ritzpair(k, val, vec, conv, nv, sg) ==
    IF k = "shift" THEN shift_sort_ritzpair(val, vec, conv, nv, sg)
    ELSE base_sort_ritzpair(val, vec, conv, nv)

\* ------------------------------------------------- converged
\* resid[j] < bound[j], with bound = tol * max(prec, |ritz_val[j]|) and
\* resid = |last row of ritz_vec| * ||fac_f||
resid_lt_bound(theta, col, f, tl) ==
    LET bound == RMaxPrecAbs(theta)
    IN  (col.last * f.norm) * bound[2] < tl * bound[1]

\* converged(tol): the new ritz_conv; the return value is ritz_conv.all()
converged(val, vec, f, nv, tl) ==
    [j \in Idx(nv) |-> resid_lt_bound(val[j], vec[j], f, tl)]

All(conv) == \A j \in DOMAIN conv : conv[j]

\* ------------------------------------------------- restart
\* the implicit QR shifts of restart(k): V -> VQ, H -> Q'HQ (a similarity:
\* the eigenvalues of H are kept)
apply_shifts(st) ==
    [st EXCEPT !.V = [j \in DOMAIN st.V |-> <<"VQ">>],
               !.H.ent = [rc \in DOMAIN st.H.ent |-> "QtHQ"]]

\* restart(k) up to and including factorize_from(k, ncv, fk); the caller
\* then runs retrieve_ritzpair().  Not used with k >= ncv (early return).
restart_factorize(st, k, nc, num, knd) ==
    LET sh == apply_shifts(st)
        fk == [vec |-> <<"scale">> \o sh.f.vec, norm |-> sh.f.norm]
    IN  factorize_from(sh, k, nc, fk, num, knd)

\* ------------------------------------------------- accessors
\* the loop of eigenvalues(): res[j] = ritz_val[i] for the flagged i
RECURSIVE collect(_, _, _, _)
collect(src, conv, i, nv) ==
    IF i >= nv THEN <<>>
    ELSE IF conv[i] THEN <<src[i]>> \o collect(src, conv, i + 1, nv)
    ELSE collect(src, conv, i + 1, nv)

nconv(conv) == Cardinality({j \in DOMAIN conv : conv[j]})

\* mutant: res[j] = ritz_val[j], the read index not advanced with i
eigenvalues_read_j(val, conv, nv) ==
    IF nconv(conv) = 0 THEN <<>> ELSE [k \in 1..nconv(conv) |-> val[k - 1]]

eigenvalues(val, conv, nv) ==
    IF nconv(conv) = 0 THEN <<>> ELSE collect(val, conv, 0, nv)

\* fac_V * ritz_vec_conv: column j is V times the j-th collected Ritz vector
eigenvectors(V, vec, conv, nv) ==
    IF nconv(conv) = 0 THEN <<>>
    ELSE LET cols == collect(vec, conv, 0, nv)
         IN  [j \in DOMAIN cols |-> [V |-> V, y |-> cols[j]]]

\* ------------------------------------------------- construction and init
ValidConfigs ==
    {c \in (3..(MaxNcv + 1)) \X NcvSet \X NevSet :
        c[1] = c[2] + 1 /\ c[3] < c[2]}

\* requests outside 0 < nev < ncv < n
DegenerateConfigs == {<<3, 2, 0>>, <<3, 2, 2>>, <<2, 2, 1>>}

Configs == ValidConfigs \cup DegenerateConfigs

NoResult == [fn |-> "none", out |-> <<>>]

\* SymEigsShiftSolver constructor body: op_shift->set_shift(sigma)
shift_ctor(o, sg) == [o EXCEPT !.shift_set = TRUE, !.shift = sg]

\* H after init(): only H(0,0) = v.w = h00 is nonzero
InitH(h00, nc) ==
    LET ev == [j \in Idx(nc) |-> IF h00 < 0 /\ j = 0 THEN h00
                                 ELSE IF h00 > 0 /\ j = nc - 1 THEN h00 ELSE 0]
    IN  [ent   |-> [rc \in Idx(nc) \X Idx(nc) |->
                       IF rc = <<0, 0>> THEN "v.w" ELSE "zero"],
         evals |-> ev]

\* mutant: the seed is normalized directly, the operator applied once
init_seed_direct(k, o, init_coef, nv, nc, h00, fnorm) ==
    LET v  == <<"normalize">> \o init_coef
        m2 == matrix_operation(k, o, v)
    IN  [V    |-> [j \in Idx(nc) |-> IF j = 0 THEN v ELSE ZeroVec],
         H    |-> InitH(h00, nc),
         f    |-> [vec |-> <<"w-vH">>, norm |-> fnorm],
         val  |-> [j \in Idx(nc) |-> Rat(0)],
         vec  |-> [j \in Idx(nv) |-> ZeroCol],
         conv |-> [j \in Idx(nv) |-> FALSE],
         op   |-> m2.op]

\* init(init_coef): the solver fields it leaves, and the operator
init(k, o, init_coef, nv, nc, h00, fnorm) ==
    LET m1 == matrix_operation(k, o, init_coef)
        v  == <<"normalize">> \o m1.out
        m2 == matrix_operation(k, m1.op, v)
    IN  [V    |-> [j \in Idx(nc) |-> IF j = 0 THEN v ELSE ZeroVec],
         H    |-> InitH(h00, nc),
         f    |-> [vec |-> <<"w-vH">>, norm |-> fnorm],
         val  |-> [j \in Idx(nc) |-> Rat(0)],
         vec  |-> [j \in Idx(nv) |-> ZeroCol],
         conv |-> [j \in Idx(nv) |-> FALSE],
         op   |-> m2.op]

\* compute(): return i + 1
compute_return(i) == i + 1

\* mutant: i <= maxit
loop_continues_inclusive(i, mi) == i <= mi

\* compute(): the loop condition i < maxit
loop_continues(i, mi) == i < mi

Init ==
    /\ pc = "new"
    /\ kind = "none" /\ rule = "none"
    /\ dim_n = 0 /\ nev = 0 /\ ncv = 0 /\ sigma = 0
    /\ op = [shift_set |-> FALSE, shift |-> 0, calls |-> NoOpCalls]
    /\ fac_V = Uninit /\ fac_H = Uninit /\ fac_f = Uninit
    /\ ritz_val = Uninit /\ ritz_vec = Uninit /\ ritz_conv = Uninit
    /\ maxit = 0 /\ tol = 0 /\ iter_i = 0 /\ ret = 0 /\ calls = <<>>
    /\ res = NoResult

\* SymEigsSolver(op, nev, ncv) / SymEigsShiftSolver(op, nev, ncv, sigma):
\* members are sized, not filled
Construct ==
    /\ pc = "new"
    /\ \E k \in Kinds, r \in Rules, c \in Configs, sg \in Sigmas :
          /\ k = "shift" => r = "LARGEST_MAGN"
          /\ kind' = k /\ rule' = r
          /\ dim_n' = c[1] /\ ncv' = c[2] /\ nev' = c[3]
          /\ sigma' = IF k = "shift" THEN sg ELSE 0
          /\ op' = IF k = "shift" THEN shift_ctor(op, sg) ELSE op
    /\ pc' = "constructed"
    /\ UNCHANGED <<fac_V, fac_H, fac_f, ritz_val, ritz_vec, ritz_conv, args,
                   res>>

Idle == pc \in {"ready", "done", "resorted"}

Readable == pc = "done"

\* init(init_coef)
InitCall ==
    /\ pc = "constructed" \/ (Idle /\ res = NoResult)
    /\ \E h00 \in H00s, fn \in FNorms :
          LET r == init(kind, [op EXCEPT !.calls = NoOpCalls], <<"init_coef">>,
                        nev, ncv, h00, fn)
          IN  /\ fac_V' = r.V /\ fac_H' = r.H /\ fac_f' = r.f
              /\ ritz_val' = r.val /\ ritz_vec' = r.vec /\ ritz_conv' = r.conv
              /\ op' = r.op
    /\ pc' = "ready"
    /\ res' = NoResult
    /\ UNCHANGED <<solver, args>>

\* compute(maxit, tol), first statement: factorize_from(1, ncv, fac_f)
ComputeBegin ==
    /\ pc = "ready"
    /\ \E mi \in MaxIts, tl \in Tols, num \in NumOutcomes(ncv) :
          LET st == [V |-> fac_V, H |-> fac_H, f |-> fac_f,
                     op |-> [op EXCEPT !.calls = NoOpCalls]]
              r  == factorize_from(st, 1, ncv, fac_f, num, kind)
          IN  /\ fac_V' = r.V /\ fac_H' = r.H /\ fac_f' = r.f /\ op' = r.op
              /\ maxit' = mi /\ tol' = tl
    /\ iter_i' = 0 /\ ret' = 0
    /\ calls' = <<"factorize_from">>
    /\ pc' = "c_retrieve"
    /\ res' = NoResult
    /\ UNCHANGED <<solver, ritz_val, ritz_vec, ritz_conv>>

\* compute(): retrieve_ritzpair(); int i = 0
Retrieve ==
    /\ pc = "c_retrieve"
    /\ \E r \in retrieve_ritzpair(fac_H, rule, nev, ncv) :
          ritz_val' = r.val /\ ritz_vec' = r.vec
    /\ calls' = Append(calls, "retrieve_ritzpair")
    /\ pc' = "c_loop"
    /\ UNCHANGED <<solver, op, fac_V, fac_H, fac_f, ritz_conv, maxit, tol,
                   iter_i, ret, res>>

\* the loop condition i < maxit fails
LoopExit ==
    /\ pc = "c_loop" /\ ~loop_continues(iter_i, maxit)
    /\ pc' = "c_sort"
    /\ UNCHANGED <<solver, op, fac_V, fac_H, fac_f, ritz_val, ritz_vec,
                   ritz_conv, args, res>>

\* i < maxit: if(converged(tol)) break;
TestConverged ==
    /\ pc = "c_loop" /\ loop_continues(iter_i, maxit)
    /\ LET c == converged(ritz_val, ritz_vec, fac_f, nev, tol)
       IN  /\ ritz_conv' = c
           /\ IF All(c)
              THEN pc' = "c_sort" /\ calls' = Append(calls, "converged:true")
              ELSE pc' = "c_restart" /\ calls' = Append(calls, "converged:false")
    /\ UNCHANGED <<solver, op, fac_V, fac_H, fac_f, ritz_val, ritz_vec,
                   maxit, tol, iter_i, ret, res>>

\* restart(nev); i++
Restart ==
    /\ pc = "c_restart"
    /\ IF nev >= ncv
       THEN UNCHANGED <<op, fac_V, fac_H, fac_f, ritz_val, ritz_vec>>
       ELSE \E num \in NumOutcomes(ncv) :
              LET st == [V |-> fac_V, H |-> fac_H, f |-> fac_f, op |-> op]
                  r  == restart_factorize(st, nev, ncv, num, kind)
              IN  /\ fac_V' = r.V /\ fac_H' = r.H /\ fac_f' = r.f /\ op' = r.op
                  /\ \E rp \in retrieve_ritzpair(r.H, rule, nev, ncv) :
                        ritz_val' = rp.val /\ ritz_vec' = rp.vec
    /\ iter_i' = iter_i + 1
    /\ calls' = Append(calls, "restart")
    /\ pc' = "c_loop"
    /\ UNCHANGED <<solver, ritz_conv, maxit, tol, ret, res>>

\* sort_ritzpair(); return i + 1
FinalSort ==
    /\ pc = "c_sort"
    /\ \E r \in sort_ritzpair(kind, ritz_val, ritz_vec, ritz_conv, nev, sigma) :
          ritz_val' = r.val /\ ritz_vec' = r.vec /\ ritz_conv' = r.conv
    /\ ret' = compute_return(iter_i)
    /\ calls' = Append(calls, "sort_ritzpair")
    /\ pc' = "done"
    /\ UNCHANGED <<solver, op, fac_V, fac_H, fac_f, maxit, tol, iter_i, res>>

\* sort_ritzpair() called once more, directly after compute() returned
SortAgain ==
    /\ pc = "done" /\ res = NoResult
    /\ \E r \in sort_ritzpair(kind, ritz_val, ritz_vec, ritz_conv, nev, sigma) :
          ritz_val' = r.val /\ ritz_vec' = r.vec /\ ritz_conv' = r.conv
    /\ pc' = "resorted"
    /\ UNCHANGED <<solver, op, fac_V, fac_H, fac_f, args, res>>

\* eigenvalues()
Eigenvalues ==
    /\ Readable
    /\ res' = [fn |-> "eigenvalues", out |-> eigenvalues(ritz_val, ritz_conv, nev)]
    /\ UNCHANGED <<pc, solver, op, fac_V, fac_H, fac_f, ritz_val, ritz_vec,
                   ritz_conv, args>>

\* eigenvectors()
Eigenvectors ==
    /\ Readable
    /\ res' = [fn |-> "eigenvectors",
               out |-> eigenvectors(fac_V, ritz_vec, ritz_conv, nev)]
    /\ UNCHANGED <<pc, solver, op, fac_V, fac_H, fac_f, ritz_val, ritz_vec,
                   ritz_conv, args>>

Next ==
    \/ Construct
    \/ InitCall
    \/ ComputeBegin
    \/ Retrieve
    \/ LoopExit
    \/ TestConverged
    \/ Restart
    \/ FinalSort
    \/ SortAgain
    \/ Eigenvalues
    \/ Eigenvectors

Spec == Init /\ [][Next]_vars


\* ------------------------------------------------- retrieve_ritzpair alone
\* the solver after init() and factorize_from(1, ncv, fac_f), for a given
\* spectrum of fac_H
Factorized(k, nv, nc, evals) ==
    LET o0 == [shift_set |-> (k = "shift"), shift |-> 0, calls |-> NoOpCalls]
        i0 == init(k, o0, <<"init_coef">>, nv, nc, 1, 1)
        st == [V |-> i0.V, H |-> i0.H, f |-> i0.f,
               op |-> [i0.op EXCEPT !.calls = NoOpCalls]]
    IN  [i0 EXCEPT !.V = factorize_from(st, 1, nc, i0.f,
                                        [norm |-> 1, evals |-> evals], k).V,
                   !.H = factorize_from(st, 1, nc, i0.f,
                                        [norm |-> 1, evals |-> evals], k).H,
                   !.f = factorize_from(st, 1, nc, i0.f,
                                        [norm |-> 1, evals |-> evals], k).f,
                   !.op = factorize_from(st, 1, nc, i0.f,
                                         [norm |-> 1, evals |-> evals], k).op]

RVals == (0 - (MaxNcvR \div 2))..((MaxNcvR + 1) \div 2)

Min(S) == CHOOSE x \in S : \A y \in S : x <= y

\* the elements of S in increasing order, 0-based
RECURSIVE AscOf(_)
AscOf(S) == IF S = {} THEN <<>> ELSE <<Min(S)>> \o AscOf(S \ {Min(S)})

DistinctSpectra(nc) ==
    {[j \in Idx(nc) |-> AscOf(S)[j + 1]] :
        S \in {T \in SUBSET RVals : Cardinality(T) = nc}}

\* BOTH_ENDS solvers of every size 0 < nev < ncv <= MaxNcvR, factorized,
\* about to run retrieve_ritzpair()
InitR ==
    /\ pc = "c_retrieve"
    /\ kind = "base" /\ rule = "BOTH_ENDS" /\ sigma = 0
    /\ ncv \in 2..MaxNcvR
    /\ nev \in 1..(ncv - 1)
    /\ dim_n = ncv + 1
    /\ \E ev \in DistinctSpectra(ncv) :
          LET s0 == Factorized("base", nev, ncv, ev)
          IN  /\ fac_V = s0.V /\ fac_H = s0.H /\ fac_f = s0.f /\ op = s0.op
              /\ ritz_val = s0.val /\ ritz_vec = s0.vec /\ ritz_conv = s0.conv
    /\ maxit = 0 /\ tol = 2 /\ iter_i = 0 /\ ret = 0
    /\ calls = <<"factorize_from">>
    /\ res = NoResult

NextR == Retrieve

SpecR == InitR /\ [][NextR]_vars

\* ------------------------------------------------- C5
HEvals == {Rat(fac_H.evals[j]) : j \in Idx(ncv)}

\* the k algebraically largest / smallest elements of a set of rationals
LargestOf(E, k) == {x \in E : Cardinality({y \in E : RGT(y, x)}) < k}
SmallestOf(E, k) == {x \in E : Cardinality({y \in E : RGT(x, y)}) < k}

\* C5: under BOTH_ENDS, with 0 < nev < ncv and ncv distinct eigenvalues of H,
\* after retrieve_ritzpair the first nev Ritz values are the ceil(nev/2)
\* largest together with the floor(nev/2) smallest eigenvalues, ritz_val as a
\* whole is a permutation of the eigenvalues of H, and Ritz vector i (i < nev)
\* is the eigenvector that belongs to Ritz value i.
C5_BothEndsSelection ==
    (/\ pc = "c_loop" /\ rule = "BOTH_ENDS"
     /\ 0 < nev /\ nev < ncv
     /\ Cardinality(HEvals) = ncv)
    => /\ {ritz_val[j] : j \in Idx(nev)} =
              LargestOf(HEvals, (nev + 1) \div 2) \cup SmallestOf(HEvals, nev \div 2)
       /\ \A a, b \in Idx(nev) : a # b => ritz_val[a] # ritz_val[b]
       /\ {ritz_val[j] : j \in Idx(ncv)} = HEvals
       /\ DOMAIN ritz_val = Idx(ncv)
       /\ \A j \in Idx(nev) :
             /\ ritz_vec[j].val = ritz_val[j]
             /\ Rat(fac_H.evals[ritz_vec[j].idx]) = ritz_val[j]

\* the swap ranges cross: nev = 6 of ncv = 7
C5_Witness == pc = "c_loop" /\ rule = "BOTH_ENDS" /\ nev = 6 /\ ncv = 7

\* ------------------------------------------------- C1
Count(sq, x) == Cardinality({k \in DOMAIN sq : sq[k] = x})

Returned == pc \in {"done", "resorted"}

\* C1: the value compute returns is the number of restart iterations
\* performed, the terminating one (whose convergence check succeeded) included.
C1_ReturnIsIterationCount ==
    Returned => ret = Count(calls, "restart") + Count(calls, "converged:true")

\* ------------------------------------------------- C2
\* C2: no solver exists with nev <= 0, nev >= ncv or ncv >= n: construction
\* fails for such a request.
C2_DegenerateRejected ==
    pc # "new" => (0 < nev /\ nev < ncv /\ ncv < dim_n)

\* ------------------------------------------------- C3
Flagged == {j \in Idx(nev) : ritz_conv[j]}

\* the k-th flagged position, k = 1, 2, ...
FlaggedAt(k) == CHOOSE j \in Flagged : Cardinality({m \in Flagged : m < j}) = k - 1

\* C3: eigenvalues() returns the Ritz values at the flagged positions i < nev
\* in increasing position order and eigenvectors() one column (V times the
\* Ritz vector) per such position in the same order; with no flag set both
\* are empty.
C3_AccessorsSelectFlagged ==
    /\ res.fn = "eigenvalues" =>
          /\ Len(res.out) = Cardinality(Flagged)
          /\ \A k \in 1..Cardinality(Flagged) : res.out[k] = ritz_val[FlaggedAt(k)]
    /\ res.fn = "eigenvectors" =>
          /\ Len(res.out) = Cardinality(Flagged)
          /\ \A k \in 1..Cardinality(Flagged) :
                res.out[k] = [V |-> fac_V, y |-> ritz_vec[FlaggedAt(k)]]

\* eigenvalues() skipped position 0 and returned the value at position 1
C3_Witness ==
    /\ pc = "done" /\ res.fn = "eigenvalues" /\ nev = 2
    /\ ~ritz_conv[0] /\ ritz_conv[1]
    /\ ritz_val[0] # ritz_val[1]

\* ------------------------------------------------- C6
OpCalls == op.calls.prod + op.calls.shift_solve

RestZeroAfterInit ==
    /\ \A j \in Idx(ncv) : j # 0 => fac_V[j] = ZeroVec
    /\ \A rc \in DOMAIN fac_H.ent : rc # <<0, 0>> => fac_H.ent[rc] = "zero"
    /\ \A j \in Idx(ncv) : ritz_val[j] = Rat(0)
    /\ \A j \in Idx(nev) : ritz_vec[j] = ZeroCol /\ ~ritz_conv[j]

\* C6 as stated: init invokes the operator once and stores the normalized
\* seed itself as the first column of V; the rest of the state is zero.
C6_InitNormalizedSeed ==
    pc = "ready" =>
        /\ OpCalls = 1
        /\ fac_V[0] = <<"normalize", "init_coef">>
        /\ RestZeroAfterInit

\* C6 amended: init invokes the operator twice (on the seed, then on the
\* first basis vector) and the first column of V is the normalized image of
\* the seed under the operator; the rest of the state is zero.
C6_InitNormalizedImage ==
    pc = "ready" =>
        /\ OpCalls = 2
        /\ fac_V[0] = <<"normalize",
                        IF kind = "shift" THEN "shift_solve" ELSE "prod",
                        "init_coef">>
        /\ RestZeroAfterInit

C6_Witness == pc = "ready" /\ kind = "base" /\ ncv = 3 /\ nev = 2

\* ------------------------------------------------- C7
Computing == pc \in {"c_retrieve", "c_loop", "c_restart", "c_sort"}

\* operator invocations of the current public call: 2 by init();
\* ncv - 1 by the initial factorization, ncv - nev by every restart
ExpectedOpCalls ==
    IF pc = "ready" THEN 2
    ELSE IF Computing \/ Returned
         THEN (ncv - 1) + (IF nev < ncv THEN iter_i * (ncv - nev) ELSE 0)
    ELSE 0

\* C7: on the shift-invert adapter set_shift(sigma) is done by the
\* constructor, before any shift_solve, every operator invocation of init,
\* of the initial factorization and of the restarts is a shift_solve, and
\* prod is never invoked.
C7_ShiftSolveOnly ==
    (kind = "shift") =>
        /\ op.shift_set /\ op.shift = sigma
        /\ op.calls.prod = 0
        /\ op.calls.shift_solve = ExpectedOpCalls

C7_Witness ==
    kind = "shift" /\ pc = "c_loop" /\ iter_i = 2 /\ op.calls.shift_solve > 0

\* ------------------------------------------------- C9
RECURSIVE Rounds(_)
Rounds(j) == IF j = 0 THEN <<>>
             ELSE <<"converged:false", "restart">> \o Rounds(j - 1)

Opening == <<"factorize_from", "retrieve_ritzpair">>

Closing(j) == IF j < maxit THEN <<"converged:true">> ELSE <<>>

CallOrder ==
    /\ pc = "c_retrieve" => calls = <<"factorize_from">>
    /\ pc = "c_loop" => iter_i <= maxit /\ calls = Opening \o Rounds(iter_i)
    /\ pc = "c_restart" =>
          /\ iter_i < maxit
          /\ calls = Opening \o Rounds(iter_i) \o <<"converged:false">>
    /\ pc = "c_sort" =>
          /\ iter_i <= maxit
          /\ calls = Opening \o Rounds(iter_i) \o Closing(iter_i)
    /\ Returned =>
          /\ iter_i <= maxit
          /\ calls = Opening \o Rounds(iter_i) \o Closing(iter_i) \o <<"sort_ritzpair">>
    /\ (Computing \/ Returned) =>
          Count(calls, "converged:true") + Count(calls, "converged:false") <= maxit

\* what is left of the longest call sequence compute() can make
Rank == 2 * ((2 * maxit + 4) - Len(calls)) + (IF pc = "c_loop" THEN 1 ELSE 0)

\* the step compute() is at can be taken (std::sort and the factorization
\* have an outcome)
CanStep ==
    /\ pc = "c_retrieve" => retrieve_ritzpair(fac_H, rule, nev, ncv) # {}
    /\ pc = "c_restart" =>
          \/ nev >= ncv
          \/ \E num \in NumOutcomes(ncv) :
                retrieve_ritzpair(
                    restart_factorize([V |-> fac_V, H |-> fac_H, f |-> fac_f,
                                       op |-> op], nev, ncv, num, kind).H,
                    rule, nev, ncv) # {}
    /\ pc = "c_sort" =>
          sort_ritzpair(kind, ritz_val, ritz_vec, ritz_conv, nev, sigma) # {}

\* C9: compute performs factorize_from, retrieve_ritzpair, then j <= maxit
\* rounds of (convergence test false, restart), then a convergence test that
\* is true iff j < maxit, then one final sort as its last step; the test runs
\* at most maxit times, and compute terminates: while it runs its next step
\* can be taken and every step lowers Rank, which stays >= 0.
C9_ComputeOrder ==
    /\ [](CallOrder /\ (Computing => (CanStep /\ Rank >= 0)))
    /\ [][Computing => (Rank' < Rank /\ Rank' >= 0)]_vars

C9_Witness ==
    pc = "done" /\ maxit = 2 /\ iter_i = 1 /\ Count(calls, "converged:true") = 1

\* ------------------------------------------------- C10
\* the Ritz value the test of position j works on (before the shift-invert
\* adapter maps the first nev values back)
TestedValue(j) == IF kind = "shift" THEN ritz_vec[j].val ELSE ritz_val[j]

\* C10: when compute returns (maxit >= 1) the flag at each position i < nev
\* is the outcome of the convergence test on the Ritz pair stored at i.
C10_FlagsMatchPairs ==
    (pc = "done" /\ maxit >= 1) =>
        \A j \in Idx(nev) :
            ritz_conv[j] = resid_lt_bound(TestedValue(j), ritz_vec[j], fac_f, tol)

\* ------------------------------------------------- the final sort alone
\* Solvers of every size 0 < nev < ncv <= MaxNcvS whose compute(1, tol) has
\* used up its one iteration: initial factorization, a failed convergence
\* test (some flag is false), one restart, then the loop exit.
InitS ==
    /\ pc = "c_sort"
    /\ kind \in Kinds /\ rule \in Rules
    /\ kind = "shift" => rule = "LARGEST_MAGN"
    /\ sigma \in (IF kind = "shift" THEN Sigmas ELSE {0})
    /\ ncv \in 2..MaxNcvS
    /\ nev \in 1..(ncv - 1)
    /\ dim_n = ncv + 1
    /\ \E ev \in Ascending(ncv, EigValsS) :
          LET s0 == Factorized(kind, nev, ncv, ev)
              s1 == restart_factorize([V |-> s0.V, H |-> s0.H, f |-> s0.f,
                                       op |-> s0.op], nev, ncv,
                                      [norm |-> 1, evals |-> ev], kind)
          IN  /\ fac_V = s1.V /\ fac_H = s1.H /\ fac_f = s1.f
              /\ op = [s1.op EXCEPT !.shift = sigma]
              /\ \E r \in retrieve_ritzpair(s1.H, rule, nev, ncv) :
                    /\ \A j \in Idx(nev) : r.vec[j].last = 1
                    /\ ritz_val = r.val /\ ritz_vec = r.vec
    /\ ritz_conv \in [Idx(nev) -> BOOLEAN]
    /\ ~All(ritz_conv)
    /\ maxit = 1 /\ tol = 2 /\ iter_i = 1 /\ ret = 0
    /\ calls = <<"factorize_from", "retrieve_ritzpair", "converged:false", "restart">>
    /\ res = NoResult

NextS ==
    \/ FinalSort
    \/ SortAgain
    \/ Eigenvalues
    \/ Eigenvectors

SpecS == InitS /\ [][NextS]_vars

\* ------------------------------------------------- C4
\* what the final sort makes of a Ritz value before ordering
MappedBack(x) == IF kind = "shift" THEN RAdd(RRecip(x), sigma) ELSE x

NonIncreasingMagn(sq, lo, hi) ==
    \A a, b \in lo..hi : a < b => ~RAbsGT(sq[b], sq[a])

HeadUnchanged ==
    /\ \A j \in Idx(nev) : ritz_val'[j] = ritz_val[j]
    /\ ritz_vec' = ritz_vec
    /\ ritz_conv' = ritz_conv

DistinctMagn ==
    \A a, b \in Idx(nev) :
        a # b => (RAbsGT(ritz_val[a], ritz_val[b]) \/ RAbsGT(ritz_val[b], ritz_val[a]))

\* C8 as stated: a second final sort directly after the first leaves the
\* first nev Ritz values, the Ritz vectors and the flags as they were (base
\* solver and shift-invert adapter).
C8_ResortIdempotent ==
    [][(pc = "done" /\ pc' = "resorted") => HeadUnchanged]_vars

\* C8 amended: that holds for the base solver's final sort when the first
\* nev Ritz values have pairwise distinct magnitudes.
C8_BaseResortIdempotent ==
    [][(pc = "done" /\ pc' = "resorted" /\ kind = "base" /\ DistinctMagn)
          => HeadUnchanged]_vars

C8_Witness ==
    /\ pc = "resorted" /\ kind = "base" /\ nev = 2 /\ DistinctMagn
    /\ \E a, b \in Idx(nev) : ritz_conv[a] /\ ~ritz_conv[b]
====
